---- MODULE Spec2Model ----
(***************************************************************************)
(* Chunked gather (take) of polars-ops:                                    *)
(*   crates/polars-ops/src/chunked_array/gather/chunked.rs                 *)
(*                                                                         *)
(* A ChunkedArray is a list of chunks (arrays).  A gather receives a list  *)
(* of ChunkId addresses, each the packed pair (chunk index, row index) or  *)
(* the null sentinel, and builds a one-chunk ChunkedArray.                 *)
(***************************************************************************)
EXTENDS Integers, Sequences, FiniteSets, TLC

(***************************************************************************)
(* Bounds of the model.                                                    *)
(***************************************************************************)
\* bits of the chunk-index field of a ChunkId (the const generic B)
ChunkBits == 3
\* bits of the row-index field of a ChunkId
RowBits == 3
\* largest number of chunks of a source
MaxChunks == 2
\* largest length of an address list
MaxBy == 3
\* largest number of columns of a table
MaxCols == 2

\* Inline threshold of a view: longer values live in a buffer.
INLINE_LEN == 12

Pow2(n) == 2 ^ n

Range(s) == {s[j] : j \in DOMAIN s}

RECURSIVE SeqsUpTo(_, _)
\* all sequences over S of length at most n
SeqsUpTo(S, n) ==
  IF n = 0 THEN {<<>>}
  ELSE LET shorter == SeqsUpTo(S, n - 1)
       IN  shorter \cup {Append(s, x) : s \in {t \in shorter : Len(t) = n - 1}, x \in S}

(***************************************************************************)
(* ChunkId<B>: the address codec.  One unsigned word; the row index sits   *)
(* above the B low bits that hold the chunk index; all ones is null.       *)
(***************************************************************************)
AddrBits == ChunkBits + RowBits
AddrModulus == Pow2(AddrBits)

ChunkId_null == AddrModulus - 1

ChunkId_is_null(id) == id = ChunkId_null

ChunkId_store(chunk, row) == (row * Pow2(ChunkBits) + chunk) % AddrModulus

\* <<chunk_idx, array_idx>>
ChunkId_extract(id) == << id % Pow2(ChunkBits), id \div Pow2(ChunkBits) >>

(***************************************************************************)
(* Sortedness flag (IsSorted) and its merge on gather.                     *)
(***************************************************************************)
IsSorted == {"Ascending", "Descending", "Not"}

\* merge of the flag of the source and the hint of the caller
\* (the two opposite directions collapse to Not)
_update_gather_sorted_flag(sorted_arr, sorted_idx) ==
  IF sorted_idx = "Not" \/ sorted_arr = "Not" THEN "Not"
  ELSE IF sorted_arr = sorted_idx THEN sorted_arr
  ELSE "Not"

(***************************************************************************)
(* Views, buffers and view-encoded arrays.                                 *)
(*   Buffer : [ptr, data]   ptr is the identity of the first byte          *)
(*   View   : [length, prefix, buffer_idx, offset]   four u32 words; when  *)
(*            length <= 12 the last three words hold the bytes inline      *)
(*   Array  : [views, buffers, validity]  validity = [some, bits]          *)
(***************************************************************************)
Buffer_as_ptr(buf) == buf.ptr

Buffer_len(buf) == Len(buf.data)

\* the (pointer, length) key the gather dedups buffers on
BufferKey(buf) == << Buffer_as_ptr(buf), Buffer_len(buf) >>

View_default == [length |-> 0, prefix |-> 0, buffer_idx |-> 0, offset |-> 0]

\* the four little-endian bytes of a u32 word
WordBytes(w) == << w % 256, (w \div 256) % 256, (w \div 65536) % 256, (w \div 16777216) % 256 >>

\* the bytes a view denotes, given the buffer pool of its array
ViewBytes(view, buffers) ==
  IF view.length <= INLINE_LEN
  THEN SubSeq(WordBytes(view.prefix) \o WordBytes(view.buffer_idx) \o WordBytes(view.offset),
              1, view.length)
  ELSE SubSeq(buffers[view.buffer_idx + 1].data, view.offset + 1, view.offset + view.length)

None == [null |-> TRUE, val |-> <<>>]

Some(v) == [null |-> FALSE, val |-> v]

Array_len(arr) == Len(arr.views)

Array_is_null_unchecked(arr, i) == arr.validity.some /\ ~arr.validity.bits[i + 1]

Array_has_nulls(arr) == \E i \in 0..(Array_len(arr) - 1) : Array_is_null_unchecked(arr, i)

\* element i of a view-encoded array, as an optional byte string
Array_get(arr, i) ==
  IF Array_is_null_unchecked(arr, i) THEN None
  ELSE Some(ViewBytes(arr.views[i + 1], arr.buffers))

n_chunks(ca) == Len(ca.chunks)

has_nulls(ca) == \E c \in 1..n_chunks(ca) : Array_has_nulls(ca.chunks[c])

downcast_get_unchecked(ca, chunk_idx) == ca.chunks[chunk_idx + 1]

(***************************************************************************)
(* update_view: the buffer dedup of the multi-chunk gather.                *)
(*   buffer_idxs : set of <<key, index>> pairs (the hash map)              *)
(*   buffers     : the output pool                                         *)
(***************************************************************************)
MapHas(buffer_idxs, key) == \E e \in buffer_idxs : e[1] = key

MapGet(buffer_idxs, key) == (CHOOSE e \in buffer_idxs : e[1] = key)[2]

\* update_view with a new buffer always given index 0
update_view_index_zero(view, orig_buffers, buffer_idxs, buffers) ==
  IF view.length > INLINE_LEN
  THEN LET orig_buffer == orig_buffers[view.buffer_idx + 1]
           key == BufferKey(orig_buffer)
       IN  IF MapHas(buffer_idxs, key)
           THEN [view |-> [view EXCEPT !.buffer_idx = MapGet(buffer_idxs, key)],
                 buffer_idxs |-> buffer_idxs,
                 buffers |-> buffers]
           ELSE [view |-> [view EXCEPT !.buffer_idx = 0],
                 buffer_idxs |-> buffer_idxs \cup {<< key, 0 >>},
                 buffers |-> Append(buffers, orig_buffer)]
  ELSE [view |-> view, buffer_idxs |-> buffer_idxs, buffers |-> buffers]

\* update_view that never finds the buffer in the map
update_view_no_dedup(view, orig_buffers, buffer_idxs, buffers) ==
  IF view.length > INLINE_LEN
  THEN LET orig_buffer == orig_buffers[view.buffer_idx + 1]
       IN  [view |-> [view EXCEPT !.buffer_idx = Len(buffers)],
            buffer_idxs |-> buffer_idxs \cup {<< BufferKey(orig_buffer), Len(buffers) >>},
            buffers |-> Append(buffers, orig_buffer)]
  ELSE [view |-> view, buffer_idxs |-> buffer_idxs, buffers |-> buffers]

\* update_view that clears the index word whatever the length
update_view_inline_rewritten(view, orig_buffers, buffer_idxs, buffers) ==
  IF view.length > INLINE_LEN
  THEN LET orig_buffer == orig_buffers[view.buffer_idx + 1]
           key == BufferKey(orig_buffer)
       IN  IF MapHas(buffer_idxs, key)
           THEN [view |-> [view EXCEPT !.buffer_idx = MapGet(buffer_idxs, key)],
                 buffer_idxs |-> buffer_idxs,
                 buffers |-> buffers]
           ELSE [view |-> [view EXCEPT !.buffer_idx = Len(buffers)],
                 buffer_idxs |-> buffer_idxs \cup {<< key, Len(buffers) >>},
                 buffers |-> Append(buffers, orig_buffer)]
  ELSE [view |-> [view EXCEPT !.buffer_idx = 0], buffer_idxs |-> buffer_idxs, buffers |-> buffers]

\* update_view whose map is looked up by the address of the buffer alone
update_view_key_is_ptr(view, orig_buffers, buffer_idxs, buffers) ==
  IF view.length > INLINE_LEN
  THEN LET orig_buffer == orig_buffers[view.buffer_idx + 1]
           key == BufferKey(orig_buffer)
           same == { e \in buffer_idxs : e[1][1] = Buffer_as_ptr(orig_buffer) }
       IN  IF same # {}
           THEN [view |-> [view EXCEPT !.buffer_idx = (CHOOSE e \in same : TRUE)[2]],
                 buffer_idxs |-> buffer_idxs,
                 buffers |-> buffers]
           ELSE [view |-> [view EXCEPT !.buffer_idx = Len(buffers)],
                 buffer_idxs |-> buffer_idxs \cup {<< key, Len(buffers) >>},
                 buffers |-> Append(buffers, orig_buffer)]
  ELSE [view |-> view, buffer_idxs |-> buffer_idxs, buffers |-> buffers]

update_view(view, orig_buffers, buffer_idxs, buffers) ==
  IF view.length > INLINE_LEN
  THEN LET orig_buffer == orig_buffers[view.buffer_idx + 1]
           key == BufferKey(orig_buffer)
       IN  IF MapHas(buffer_idxs, key)
           THEN [view |-> [view EXCEPT !.buffer_idx = MapGet(buffer_idxs, key)],
                 buffer_idxs |-> buffer_idxs,
                 buffers |-> buffers]
           ELSE [view |-> [view EXCEPT !.buffer_idx = Len(buffers)],
                 buffer_idxs |-> buffer_idxs \cup {<< key, Len(buffers) >>},
                 buffers |-> Append(buffers, orig_buffer)]
  ELSE [view |-> view, buffer_idxs |-> buffer_idxs, buffers |-> buffers]

(***************************************************************************)
(* The loops of take_unchecked_binview and take_unchecked_binview_opt.     *)
(* A builder b holds what the loop has pushed so far:                      *)
(*   views, validity (bits), buffer_idxs, buffers                          *)
(*   reads : for each address processed, the source positions            *)
(*           <<chunk, row>> the loop body dereferenced (bookkeeping)       *)
(***************************************************************************)
EmptyBuilder ==
  [views |-> <<>>, validity |-> <<>>, buffer_idxs |-> {}, buffers |-> <<>>, reads |-> <<>>]

PushNull(b, rd) ==
  [b EXCEPT !.views = Append(@, View_default),
            !.validity = Append(@, FALSE),
            !.reads = Append(@, rd)]

\* the one-chunk loop body without the test of the validity of the source row
BinviewStepSingle_no_null_test(b, id, ca, opt) ==
  LET arr == ca.chunks[1]
      array_idx == ChunkId_extract(id)[2]
      track == opt \/ Array_has_nulls(arr)
  IN  IF opt /\ ChunkId_is_null(id) THEN PushNull(b, {})
      ELSE [b EXCEPT !.views = Append(@, arr.views[array_idx + 1]),
                     !.validity = IF track THEN Append(@, TRUE) ELSE @,
                     !.reads = Append(@, {<< 0, array_idx >>})]

\* body of the loops of the one-chunk branch
\* opt: the null-checking variant; track: a validity bitmap is being built
BinviewStepSingle(b, id, ca, opt) ==
  LET arr == ca.chunks[1]
      array_idx == ChunkId_extract(id)[2]
      track == opt \/ Array_has_nulls(arr)
      pos == << 0, array_idx >>
  IN  IF opt /\ ChunkId_is_null(id) THEN PushNull(b, {})
      ELSE IF Array_has_nulls(arr) /\ Array_is_null_unchecked(arr, array_idx)
      THEN PushNull(b, {pos})
      ELSE [b EXCEPT !.views = Append(@, arr.views[array_idx + 1]),
                     !.validity = IF track THEN Append(@, TRUE) ELSE @,
                     !.reads = Append(@, {pos})]

\* body of the loops of the multi-chunk branch
BinviewStepMulti(b, id, ca, opt) ==
  LET chunk_idx == ChunkId_extract(id)[1]
      array_idx == ChunkId_extract(id)[2]
      track == opt \/ has_nulls(ca)
      pos == << chunk_idx, array_idx >>
  IN  IF opt /\ ChunkId_is_null(id) THEN PushNull(b, {})
      ELSE LET arr == downcast_get_unchecked(ca, chunk_idx)
           IN  IF has_nulls(ca) /\ Array_is_null_unchecked(arr, array_idx)
               THEN PushNull(b, {pos})
               ELSE LET u == update_view(arr.views[array_idx + 1], arr.buffers,
                                         b.buffer_idxs, b.buffers)
                    IN  [b EXCEPT !.views = Append(@, u.view),
                                  !.validity = IF track THEN Append(@, TRUE) ELSE @,
                                  !.buffer_idxs = u.buffer_idxs,
                                  !.buffers = u.buffers,
                                  !.reads = Append(@, {pos})]

\* the branch on the number of chunks
BinviewStep(b, id, ca, opt) ==
  IF n_chunks(ca) = 1 THEN BinviewStepSingle(b, id, ca, opt)
  ELSE BinviewStepMulti(b, id, ca, opt)

\* the array built from the rebuilt pool whatever the number of chunks
BinviewArray_pool_never_reused(b, ca, opt) ==
  [views |-> b.views,
   buffers |-> b.buffers,
   validity |-> IF opt \/ (IF n_chunks(ca) = 1 THEN Array_has_nulls(ca.chunks[1])
                           ELSE has_nulls(ca))
                THEN [some |-> TRUE, bits |-> b.validity]
                ELSE [some |-> FALSE, bits |-> <<>>]]

\* the array handed to new_unchecked_unknown_md once the loop is over
BinviewArray(b, ca, opt) ==
  [views |-> b.views,
   buffers |-> IF n_chunks(ca) = 1 THEN ca.chunks[1].buffers ELSE b.buffers,
   validity |-> IF opt \/ (IF n_chunks(ca) = 1 THEN Array_has_nulls(ca.chunks[1])
                           ELSE has_nulls(ca))
                THEN [some |-> TRUE, bits |-> b.validity]
                ELSE [some |-> FALSE, bits |-> <<>>]]

with_chunk(name, arr) == [name |-> name, chunks |-> << arr >>, flag |-> "Not"]

set_sorted_flag(ca, flag) == [ca EXCEPT !.flag = flag]

\* the tail of take_unchecked_binview with the hint set as the flag
BinviewFinishTake_flag_is_hint(b, ca, sorted) ==
  set_sorted_flag(with_chunk(ca.name, BinviewArray(b, ca, FALSE)), sorted)

\* the tail of take_unchecked_binview: wrap the array, merge and set the flag
\* (arr.maybe_gc() is defined outside this file; the pools here hold tens of bytes)
BinviewFinishTake(b, ca, sorted) ==
  set_sorted_flag(with_chunk(ca.name, BinviewArray(b, ca, FALSE)),
                  _update_gather_sorted_flag(ca.flag, sorted))

\* the tail of take_unchecked_binview_opt: no flag is set
BinviewFinishOpt(b, ca) == with_chunk(ca.name, BinviewArray(b, ca, TRUE))

(***************************************************************************)
(* The fixed-width path: ChunkedArray<T>::take_chunked_unchecked and       *)
(* take_opt_chunked_unchecked.  A fixed-width array is [values, validity]. *)
(***************************************************************************)
NoneP == [null |-> TRUE, val |-> 0]

Prim_is_null(arr, i) == arr.validity.some /\ ~arr.validity.bits[i + 1]

Prim_has_nulls(ca) ==
  \E c \in 1..n_chunks(ca) : \E i \in 0..(Len(ca.chunks[c].values) - 1) :
     Prim_is_null(ca.chunks[c], i)

\* vals.get_unchecked(array_idx) on an array: an optional value
Prim_get_unchecked(arr, i) == IF Prim_is_null(arr, i) THEN NoneP ELSE Some(arr.values[i + 1])

\* the value slices of the chunks, which exist only for a source without nulls
downcast_slices(ca) ==
  [some |-> ~Prim_has_nulls(ca),
   slices |-> [c \in 1..n_chunks(ca) |-> ca.chunks[c].values]]

\* the closure mapped over `by` when the slices exist
PrimElemSlices(ca, id, opt) ==
  IF opt /\ ChunkId_is_null(id) THEN [item |-> NoneP, rd |-> {}]
  ELSE LET chunk_idx == ChunkId_extract(id)[1]
           array_idx == ChunkId_extract(id)[2]
           vals == downcast_slices(ca).slices[chunk_idx + 1]
       IN  [item |-> Some(vals[array_idx + 1]), rd |-> {<< chunk_idx, array_idx >>}]

\* the closure reading the value slot without looking at the validity
PrimElemArrays_value_only(ca, id, opt) ==
  IF opt /\ ChunkId_is_null(id) THEN [item |-> NoneP, rd |-> {}]
  ELSE LET chunk_idx == ChunkId_extract(id)[1]
           array_idx == ChunkId_extract(id)[2]
           vals == ca.chunks[chunk_idx + 1]
       IN  [item |-> Some(vals.values[array_idx + 1]), rd |-> {<< chunk_idx, array_idx >>}]

\* the closure mapped over `by` when they do not
PrimElemArrays(ca, id, opt) ==
  IF opt /\ ChunkId_is_null(id) THEN [item |-> NoneP, rd |-> {}]
  ELSE LET chunk_idx == ChunkId_extract(id)[1]
           array_idx == ChunkId_extract(id)[2]
           vals == ca.chunks[chunk_idx + 1]
       IN  [item |-> Prim_get_unchecked(vals, array_idx), rd |-> {<< chunk_idx, array_idx >>}]

PrimStep(b, id, ca, opt) ==
  LET e == IF downcast_slices(ca).some THEN PrimElemSlices(ca, id, opt)
           ELSE PrimElemArrays(ca, id, opt)
  IN  [b EXCEPT !.items = Append(@, e.item), !.reads = Append(@, e.rd)]

EmptyPrimBuilder == [items |-> <<>>, reads |-> <<>>]

\* collect the optional items into one array
collect_arr(items) ==
  [values |-> [j \in 1..Len(items) |-> items[j].val],
   validity |-> IF \E j \in 1..Len(items) : items[j].null
                THEN [some |-> TRUE, bits |-> [j \in 1..Len(items) |-> ~items[j].null]]
                ELSE [some |-> FALSE, bits |-> <<>>]]

\* the end of the fixed-width gather that leaves the flag unset
PrimFinishTake_flag_unset(b, ca, sorted) == with_chunk(ca.name, collect_arr(b.items))

PrimFinishTake(b, ca, sorted) ==
  set_sorted_flag(with_chunk(ca.name, collect_arr(b.items)),
                  _update_gather_sorted_flag(ca.flag, sorted))

PrimFinishOpt(b, ca) == with_chunk(ca.name, collect_arr(b.items))

(***************************************************************************)
(* Sources the gather is run on.                                           *)
(***************************************************************************)
BufA == [ptr |-> 1, data |-> [j \in 1..14 |-> 10 + j]]

\* the same bytes as BufA at another address
BufB == [ptr |-> 2, data |-> BufA.data]

BufC == [ptr |-> 3, data |-> [j \in 1..13 |-> 40 + j]]

\* a slice of BufA: the same first byte, one byte shorter
BufA13 == [ptr |-> 1, data |-> SubSeq(BufA.data, 1, 13)]

Word(bytes) ==
  LET at(j) == IF j <= Len(bytes) THEN bytes[j] ELSE 0
  IN  at(1) + 256 * at(2) + 65536 * at(3) + 16777216 * at(4)

\* a view of 13 bytes of buffers[idx + 1] starting at byte off
LongView(buffers, idx, off) ==
  [length |-> 13, prefix |-> Word(SubSeq(buffers[idx + 1].data, off + 1, off + 4)),
   buffer_idx |-> idx, offset |-> off]

\* a view holding at most 12 bytes inline, zero padded
InlineView(bytes) ==
  LET padded == [j \in 1..INLINE_LEN |-> IF j <= Len(bytes) THEN bytes[j] ELSE 0]
  IN  [length |-> Len(bytes), prefix |-> Word(SubSeq(padded, 1, 4)),
       buffer_idx |-> Word(SubSeq(padded, 5, 8)), offset |-> Word(SubSeq(padded, 9, 12))]

NoValidity == [some |-> FALSE, bits |-> <<>>]

ArrLong2 ==
  [views |-> << LongView(<<BufA>>, 0, 0), LongView(<<BufA>>, 0, 1) >>,
   buffers |-> << BufA >>, validity |-> NoValidity]

\* shares BufA with ArrLong2; its BufB is referenced by no view
ArrShared ==
  [views |-> << LongView(<<BufB, BufA>>, 1, 0), InlineView([j \in 1..12 |-> 70 + j]) >>,
   buffers |-> << BufB, BufA >>, validity |-> NoValidity]

\* the second row is null; its view slot still names BufC
ArrNull ==
  [views |-> << LongView(<<BufC, BufB>>, 1, 0), LongView(<<BufC, BufB>>, 0, 0) >>,
   buffers |-> << BufC, BufB >>, validity |-> [some |-> TRUE, bits |-> << TRUE, FALSE >>]]

ArrSmall ==
  [views |-> << InlineView(<< 115, 109, 97, 108, 108 >>) >>,
   buffers |-> << >>, validity |-> NoValidity]

\* one row, with a validity bitmap that has no null
ArrOne ==
  [views |-> << LongView(<<BufC>>, 0, 0) >>,
   buffers |-> << BufC >>, validity |-> [some |-> TRUE, bits |-> << TRUE >>]]

\* BufA13 has the address of BufA and another length
ArrSlice ==
  [views |-> << LongView(<<BufA13, BufC>>, 0, 0), LongView(<<BufA13, BufC>>, 1, 0) >>,
   buffers |-> << BufA13, BufC >>, validity |-> NoValidity]

ViewArrays == << ArrLong2, ArrShared, ArrNull, ArrOne, ArrSmall, ArrSlice >>

PrimArrays ==
  << [values |-> << 5, 7 >>, validity |-> NoValidity],
     [values |-> << 9, 3 >>, validity |-> [some |-> TRUE, bits |-> << TRUE, FALSE >>]],
     [values |-> << 7 >>, validity |-> NoValidity],
     [values |-> << 2 >>, validity |-> [some |-> TRUE, bits |-> << TRUE >>]] >>

\* the n arrays of `arrays` from position r on, cyclically
Window(arrays, r, n) == [j \in 1..n |-> arrays[((r + j - 2) % Len(arrays)) + 1]]

ChunkLen(ca, c) ==
  IF ca.dtype = "binview" THEN Len(ca.chunks[c].views) ELSE Len(ca.chunks[c].values)

(***************************************************************************)
(* Reading a chunked array as a sequence of optional values.               *)
(***************************************************************************)
Elem(a, c, i) ==
  IF a.dtype = "binview" THEN Array_get(a.chunks[c + 1], i)
  ELSE Prim_get_unchecked(a.chunks[c + 1], i)

RECURSIVE FlattenFrom(_, _)
FlattenFrom(a, c) ==
  IF c >= n_chunks(a) THEN <<>>
  ELSE [i \in 1..ChunkLen(a, c + 1) |-> Elem(a, c, i - 1)] \o FlattenFrom(a, c + 1)

\* the source rechunked to one run of values
Flatten(a) == FlattenFrom(a, 0)

RECURSIVE ChunkOffset(_, _)
\* the sum of the lengths of the chunks before chunk c
ChunkOffset(a, c) == IF c = 0 THEN 0 ELSE ChunkOffset(a, c - 1) + ChunkLen(a, c)


RECURSIVE LexLeq(_, _)
\* byte strings compare lexicographically
LexLeq(x, y) ==
  IF x = <<>> THEN TRUE
  ELSE IF y = <<>> THEN FALSE
  ELSE IF Head(x) # Head(y) THEN Head(x) < Head(y)
  ELSE LexLeq(Tail(x), Tail(y))

ValLeq(dtype, x, y) == IF dtype = "binview" THEN LexLeq(x, y) ELSE x <= y

\* a source carries the flag Ascending or Descending only when its values are in
\* that order, the nulls all first or all last
FlagFitsValues(a) ==
  LET vals == Flatten(a)
      n == Len(vals)
  IN  a.flag = "Not" \/
      /\ ~\E i, j, l \in 1..n : i < j /\ j < l /\ ~vals[i].null /\ vals[j].null /\ ~vals[l].null
      /\ \A i, j \in 1..n :
           (i < j /\ ~vals[i].null /\ ~vals[j].null) =>
             IF a.flag = "Ascending" THEN ValLeq(a.dtype, vals[i].val, vals[j].val)
             ELSE ValLeq(a.dtype, vals[j].val, vals[i].val)

Sources(dtype, arrays) ==
  { a \in { [name |-> "a", dtype |-> dtype, chunks |-> Window(arrays, r, n), flag |-> f] :
              r \in 1..Len(arrays), n \in 1..MaxChunks, f \in IsSorted } :
      FlagFitsValues(a) }

\* the addresses of the elements of ca
ValidIds(ca) ==
  UNION { { ChunkId_store(c, i) : i \in 0..(ChunkLen(ca, c + 1) - 1) } :
            c \in 0..(n_chunks(ca) - 1) }

(***************************************************************************)
(* State of one column-level gather.                                       *)
(*   ca     the source                        by      the address list     *)
(*   sorted the hint of the caller            op      "take" | "take_opt"  *)
(*   pc     "idle" | "loop" | "done"          k       addresses consumed   *)
(*   b      the builder of the running loop   out     the result           *)
(*   phys   the physical representation the gather reads; pc is also       *)
(*          "panic" after a failed assertion and "crash" after a fault      *)
(* State of one table-level gather.                                        *)
(*   df     the source table                  idx     the address list     *)
(*   thint  the hint of the caller            top     which entry point    *)
(*   tpc    "idle" | "par" | "done"           slots   output column slots  *)
(*   pending columns whose task has not run   tout    the resulting table  *)
(* State of the codec round trip.                                          *)
(*   cpc "idle" | "stored" | "decoded"; cin the pair or null to encode;    *)
(*   caddr the ChunkId; cdec what decoding it gave                         *)
(***************************************************************************)
VARIABLES ca, by, sorted, op, pc, k, b, out, phys,
          df, idx, thint, top, tpc, slots, pending, tout,
          cpc, cin, caddr, cdec

colvars == << ca, by, sorted, op, pc, k, b, out, phys >>

tblvars == << df, idx, thint, top, tpc, slots, pending, tout >>

codecvars == << cpc, cin, caddr, cdec >>

vars == << colvars, tblvars, codecvars >>

NoOut == [name |-> "", chunks |-> <<>>, flag |-> "Not"]

NoTable == [columns |-> <<>>, height |-> 0]

ColIdle ==
  /\ ca = NoOut
  /\ by = <<>>
  /\ sorted = "Not"
  /\ op = "none"
  /\ pc = "off"
  /\ k = 0
  /\ b = EmptyBuilder
  /\ out = NoOut
  /\ phys = NoOut

TblIdle ==
  /\ df = NoTable
  /\ idx = <<>>
  /\ thint = "Not"
  /\ top = "none"
  /\ tpc = "off"
  /\ slots = <<>>
  /\ pending = {}
  /\ tout = NoTable

CodecIdle ==
  /\ cpc = "off"
  /\ cin = << >>
  /\ caddr = 0
  /\ cdec = << >>

Init ==
  /\ \/ ca \in Sources("binview", ViewArrays)
     \/ ca \in Sources("fixed", PrimArrays)
  /\ by = <<>>
  /\ sorted = "Not"
  /\ op = "none"
  /\ pc = "idle"
  /\ k = 0
  /\ b = EmptyBuilder
  /\ out = NoOut
  /\ phys = ca
  /\ TblIdle
  /\ CodecIdle

\* Series::take_chunked_unchecked: dispatch on the dtype; no address is null
Series_take_chunked_unchecked ==
  /\ pc = "idle"
  /\ \E ids \in SeqsUpTo(ValidIds(ca), MaxBy), hint \in IsSorted :
       /\ by' = ids
       /\ sorted' = hint
  /\ op' = "take"
  /\ pc' = "loop"
  /\ k' = 0
  /\ b' = IF ca.dtype = "binview" THEN EmptyBuilder ELSE EmptyPrimBuilder
  /\ UNCHANGED << ca, out, phys, tblvars, codecvars >>

\* Series::take_opt_chunked_unchecked: addresses may be the null sentinel
Series_take_opt_chunked_unchecked ==
  /\ pc = "idle"
  /\ \E ids \in SeqsUpTo(ValidIds(ca) \cup {ChunkId_null}, MaxBy) : by' = ids
  /\ op' = "take_opt"
  /\ pc' = "loop"
  /\ k' = 0
  /\ b' = IF ca.dtype = "binview" THEN EmptyBuilder ELSE EmptyPrimBuilder
  /\ UNCHANGED << ca, sorted, out, phys, tblvars, codecvars >>

\* one iteration of `for id in by.iter()` of the view-encoded gather
BinviewLoop ==
  /\ pc = "loop"
  /\ ca.dtype = "binview"
  /\ k < Len(by)
  /\ b' = BinviewStep(b, by[k + 1], ca, op = "take_opt")
  /\ k' = k + 1
  /\ UNCHANGED << ca, by, sorted, op, pc, out, phys, tblvars, codecvars >>

\* the end of take_unchecked_binview / take_unchecked_binview_opt
BinviewReturn ==
  /\ pc = "loop"
  /\ ca.dtype = "binview"
  /\ k = Len(by)
  /\ out' = IF op = "take" THEN BinviewFinishTake(b, ca, sorted) ELSE BinviewFinishOpt(b, ca)
  /\ pc' = "done"
  /\ UNCHANGED << ca, by, sorted, op, k, b, phys, tblvars, codecvars >>

\* one item pulled through the `by.iter().map(..)` of the fixed-width gather
PrimLoop ==
  /\ pc = "loop"
  /\ ca.dtype = "fixed"
  /\ k < Len(by)
  /\ b' = PrimStep(b, by[k + 1], ca, op = "take_opt")
  /\ k' = k + 1
  /\ UNCHANGED << ca, by, sorted, op, pc, out, phys, tblvars, codecvars >>

\* the end of ChunkedArray::take_chunked_unchecked / take_opt_chunked_unchecked
PrimReturn ==
  /\ pc = "loop"
  /\ ca.dtype = "fixed"
  /\ k = Len(by)
  /\ out' = IF op = "take" THEN PrimFinishTake(b, ca, sorted) ELSE PrimFinishOpt(b, ca)
  /\ pc' = "done"
  /\ UNCHANGED << ca, by, sorted, op, k, b, phys, tblvars, codecvars >>

Next ==
  \/ Series_take_chunked_unchecked
  \/ Series_take_opt_chunked_unchecked
  \/ BinviewLoop
  \/ BinviewReturn
  \/ PrimLoop
  \/ PrimReturn

Spec == Init /\ [][Next]_vars

OutArr == out.chunks[1]

OutLen == IF ca.dtype = "binview" THEN Len(OutArr.views) ELSE Len(OutArr.values)

OutElem(j) ==
  IF ca.dtype = "binview" THEN Array_get(OutArr, j - 1) ELSE Prim_get_unchecked(OutArr, j - 1)

OutElems == [j \in 1..OutLen |-> OutElem(j)]

NoneOf(a) == IF a.dtype = "binview" THEN None ELSE NoneP

Done(o) == pc = "done" /\ op = o

DoneView == pc = "done" /\ ca.dtype = "binview"

\* C1: a gather without null addresses returns, at every position k, the element of
\* the flattened source at (lengths of the chunks before c_k) + i_k, on the fixed-width
\* path and on the view-encoded path.
C1_TakeEqualsFlattenedIndex ==
  Done("take") =>
    /\ n_chunks(out) = 1
    /\ OutLen = Len(by)
    /\ \A j \in 1..Len(by) :
         LET e == ChunkId_extract(by[j])
         IN  OutElem(j) = Flatten(ca)[ChunkOffset(ca, e[1]) + e[2] + 1]

C1_Witness ==
  /\ Done("take")
  /\ ca.dtype = "binview"
  /\ n_chunks(ca) = 2
  /\ Len(by) = 2
  /\ ChunkId_extract(by[1])[1] = 1
  /\ ChunkId_extract(by[2])[1] = 0
  /\ OutElem(1) = None
  /\ OutElem(2) # None
  /\ OutArr.views[2].length > INLINE_LEN

\* C2: gather_opt returns len(addresses) elements; element k is null when address k
\* is the null sentinel, null when it points at a null source element, and otherwise
\* the source element at the decoded (chunk, offset); a null-sentinel address reads
\* no source element.
C2_TakeOptNullAware ==
  Done("take_opt") =>
    /\ n_chunks(out) = 1
    /\ OutLen = Len(by)
    /\ Len(b.reads) = Len(by)
    /\ \A j \in 1..Len(by) :
         IF ChunkId_is_null(by[j])
         THEN OutElem(j) = NoneOf(ca) /\ b.reads[j] = {}
         ELSE LET e == ChunkId_extract(by[j])
              IN  /\ OutElem(j) = Elem(ca, e[1], e[2])
                  /\ b.reads[j] \subseteq {<< e[1], e[2] >>}

C2_Witness ==
  /\ Done("take_opt")
  /\ ca.dtype = "binview"
  /\ n_chunks(ca) = 2
  /\ Len(by) = 2
  /\ ChunkId_is_null(by[1])
  /\ ~ChunkId_is_null(by[2])
  /\ Elem(ca, ChunkId_extract(by[2])[1], ChunkId_extract(by[2])[2]) = None
  /\ OutElems = << None, None >>

\* the positions k whose address is not null and points at a non-null source value
\* longer than the inline threshold
LongRows ==
  { j \in 1..Len(by) :
      /\ ~ChunkId_is_null(by[j])
      /\ LET e == ChunkId_extract(by[j])
             arr == ca.chunks[e[1] + 1]
         IN  /\ ~Array_is_null_unchecked(arr, e[2])
             /\ arr.views[e[2] + 1].length > INLINE_LEN }

\* the source buffer the address at position j refers to
SourceBuffer(j) ==
  LET e == ChunkId_extract(by[j])
      arr == ca.chunks[e[1] + 1]
  IN  arr.buffers[arr.views[e[2] + 1].buffer_idx + 1]

RefKeys == { BufferKey(SourceBuffer(j)) : j \in LongRows }

EmittedIdxs ==
  { OutArr.views[j].buffer_idx :
      j \in { i \in 1..Len(OutArr.views) :
                /\ ~Array_is_null_unchecked(OutArr, i - 1)
                /\ OutArr.views[i].length > INLINE_LEN } }

PoolIsExactlyReferenced ==
  /\ EmittedIdxs = 0..(Len(OutArr.buffers) - 1)
  /\ \A x, y \in 1..Len(OutArr.buffers) :
       BufferKey(OutArr.buffers[x]) = BufferKey(OutArr.buffers[y]) => x = y

RECURSIVE FoldMulti(_, _, _, _)
\* the multi-chunk loop run over the first n addresses
FoldMulti(a, ids, opt, n) ==
  IF n = 0 THEN EmptyBuilder
  ELSE BinviewStepMulti(FoldMulti(a, ids, opt, n - 1), ids[n], a, opt)

\* the array the multi-chunk branch would build for source a
GeneralArray(a, ids, opt) ==
  LET g == FoldMulti(a, ids, opt, Len(ids))
  IN  [views |-> g.views, buffers |-> g.buffers,
       validity |-> IF opt \/ has_nulls(a) THEN [some |-> TRUE, bits |-> g.validity]
                    ELSE NoValidity]

GeneralElems(a, ids, opt) ==
  IF a.dtype = "binview"
  THEN [j \in 1..Len(ids) |-> Array_get(GeneralArray(a, ids, opt), j - 1)]
  ELSE [j \in 1..Len(ids) |-> PrimElemArrays(a, ids[j], opt).item]

\* C5: on a one-chunk source the fast path (pool reuse; slice lookup) returns the
\* sequence the general path (rebuilt pool; per-chunk array lookup) returns on the
\* same input: same length, values and null positions.
C5_FastPathEqualsGeneral ==
  (pc = "done" /\ n_chunks(ca) = 1) => OutElems = GeneralElems(ca, by, op = "take_opt")

C5_Witness ==
  /\ DoneView
  /\ n_chunks(ca) = 1
  /\ Len(by) = 2
  /\ Len(ca.chunks[1].buffers) = 2
  /\ OutElem(1) = None
  /\ OutElem(2) # None
  /\ OutArr.views[2].buffer_idx = 1
  /\ GeneralArray(ca, by, op = "take_opt").views[2].buffer_idx = 0

\* every address of a, in order
IdentityBy(a) ==
  LET total == ChunkOffset(a, n_chunks(a))
      chunk_of(p) == CHOOSE c \in 0..(n_chunks(a) - 1) :
                       ChunkOffset(a, c) < p /\ p <= ChunkOffset(a, c + 1)
  IN  [p \in 1..total |-> ChunkId_store(chunk_of(p), p - 1 - ChunkOffset(a, chunk_of(p)))]

IsIdentityGather == pc = "done" /\ by = IdentityBy(ca)

\* C6 as stated: the identity gather reproduces the values, the null positions and
\* the sortedness flag of the source.
C6_Original == IsIdentityGather => (OutElems = Flatten(ca) /\ out.flag = ca.flag)

\* C6 amended: the identity gather reproduces the length, values and null positions
\* in order; the flag is that of the source when the source is Not-sorted, or when an
\* Ascending source is gathered with hint Ascending; with hint Not-sorted, and for
\* gather_opt, the output is Not-sorted.
C6_IdentityGather ==
  IsIdentityGather =>
    /\ OutElems = Flatten(ca)
    /\ ca.flag = "Not" => out.flag = ca.flag
    /\ (op = "take" /\ ca.flag = "Ascending" /\ sorted = "Ascending") => out.flag = ca.flag
    /\ (op = "take_opt" \/ sorted = "Not") => out.flag = "Not"

C6_Witness ==
  /\ IsIdentityGather
  /\ op = "take"
  /\ n_chunks(ca) = 2
  /\ Len(by) = 2
  /\ ca.flag = "Ascending"
  /\ sorted = "Ascending"
  /\ out.flag = "Ascending"

RECURSIVE BinviewFold(_, _, _, _)
\* the view-encoded loop run over the first n addresses
BinviewFold(a, ids, opt, n) ==
  IF n = 0 THEN EmptyBuilder
  ELSE BinviewStep(BinviewFold(a, ids, opt, n - 1), ids[n], a, opt)

RECURSIVE PrimFold(_, _, _, _)
\* the fixed-width iterator drained over the first n addresses
PrimFold(a, ids, opt, n) ==
  IF n = 0 THEN EmptyPrimBuilder
  ELSE PrimStep(PrimFold(a, ids, opt, n - 1), ids[n], a, opt)

into_series(o, dtype) ==
  [name |-> o.name, dtype |-> dtype, chunks |-> o.chunks, flag |-> o.flag]

\* a Series of the Null dtype: no storage, only a length
Series_new_null(name, length) ==
  [name |-> name, dtype |-> "null", chunks |-> << [len |-> length] >>, flag |-> "Not"]

\* the match on the dtype of Series::take_chunked_unchecked
TakeSeries(s, ids, hint) ==
  IF s.dtype = "null" THEN Series_new_null(s.name, Len(ids))
  ELSE IF s.dtype = "binview"
  THEN into_series(BinviewFinishTake(BinviewFold(s, ids, FALSE, Len(ids)), s, hint), s.dtype)
  ELSE into_series(PrimFinishTake(PrimFold(s, ids, FALSE, Len(ids)), s, hint), s.dtype)

\* the match on the dtype of Series::take_opt_chunked_unchecked
TakeOptSeries(s, ids) ==
  IF s.dtype = "null" THEN Series_new_null(s.name, Len(ids))
  ELSE IF s.dtype = "binview"
  THEN into_series(BinviewFinishOpt(BinviewFold(s, ids, TRUE, Len(ids)), s), s.dtype)
  ELSE into_series(PrimFinishOpt(PrimFold(s, ids, TRUE, Len(ids)), s), s.dtype)

RECURSIVE SumLens(_, _)
SumLens(s, n) ==
  IF n = 0 THEN 0
  ELSE SumLens(s, n - 1) +
       (IF s.dtype = "null" THEN s.chunks[n].len
        ELSE IF s.dtype = "binview" THEN Len(s.chunks[n].views)
        ELSE Len(s.chunks[n].values))

Series_len(s) == SumLens(s, Len(s.chunks))

\* the table made of the columns, its height read off the first of them
new_no_checks_height_from_first(cols) ==
  [columns |-> cols, height |-> IF cols = <<>> THEN 0 ELSE Series_len(cols[1])]

\* the closure applied to every column by the sequential entry points
SeqClosure(s, ids, hint, entry) ==
  IF entry = "take" THEN TakeSeries(s, ids, hint) ELSE TakeOptSeries(s, ids)

\* the parallel closure dropping the hint
HorParClosure_hint_dropped(s, ids, hint, entry) ==
  IF entry = "take_hor_par" THEN TakeSeries(s, ids, "Not") ELSE TakeOptSeries(s, ids)

\* the closure applied to every column by the _hor_par entry points
HorParClosure(s, ids, hint, entry) ==
  IF entry = "take_hor_par" THEN TakeSeries(s, ids, hint) ELSE TakeOptSeries(s, ids)

\* DataFrame::_apply_columns: the closure on every column, in column order
DataFrame_apply_columns(t, ids, hint, entry) ==
  [j \in 1..Len(t.columns) |-> SeqClosure(t.columns[j], ids, hint, entry)]

\* <DataFrame as TakeChunked>::take_chunked_unchecked / take_opt_chunked_unchecked
DataFrame_take(t, ids, hint, entry) ==
  new_no_checks_height_from_first(DataFrame_apply_columns(t, ids, hint, entry))

(***************************************************************************)
(* Tables the gather is run on: columns of one chunk layout (2 rows, then  *)
(* 1 row), under distinct names, and the table without columns.            *)
(***************************************************************************)
TableColumns ==
  { [name |-> "s", dtype |-> "binview", chunks |-> << ArrNull, ArrOne >>, flag |-> "Not"],
    [name |-> "i", dtype |-> "fixed", chunks |-> << PrimArrays[1], PrimArrays[3] >>,
     flag |-> "Ascending"],
    [name |-> "n", dtype |-> "null", chunks |-> << [len |-> 2], [len |-> 1] >>,
     flag |-> "Not"] }

TableHeight == Len(ArrNull.views) + Len(ArrOne.views)

Distinct(cols) == \A x, y \in 1..Len(cols) : cols[x].name = cols[y].name => x = y

Tables ==
  { [columns |-> cols, height |-> h] :
      cols \in { c \in SeqsUpTo(TableColumns, MaxCols) : Distinct(c) },
      h \in {0, TableHeight} }

\* the addresses of a table of this layout
TableIds == { ChunkId_store(0, 0), ChunkId_store(0, 1), ChunkId_store(1, 0) }

NoSlot == [name |-> "", dtype |-> "none", chunks |-> <<>>, flag |-> "Not"]

InitTable ==
  /\ ColIdle
  /\ CodecIdle
  /\ df \in { t \in Tables : (t.columns = <<>>) \/ (t.height = TableHeight) }
  /\ idx = <<>>
  /\ thint = "Not"
  /\ top = "none"
  /\ tpc = "idle"
  /\ slots = <<>>
  /\ pending = {}
  /\ tout = NoTable

\* <DataFrame as TakeChunked>::take_chunked_unchecked
DataFrame_take_chunked_unchecked ==
  /\ tpc = "idle"
  /\ \E ids \in SeqsUpTo(TableIds, MaxBy), hint \in IsSorted :
       /\ idx' = ids
       /\ thint' = hint
       /\ tout' = DataFrame_take(df, ids, hint, "take")
  /\ top' = "take"
  /\ tpc' = "done"
  /\ UNCHANGED << df, slots, pending, colvars, codecvars >>

\* <DataFrame as TakeChunked>::take_opt_chunked_unchecked
DataFrame_take_opt_chunked_unchecked ==
  /\ tpc = "idle"
  /\ \E ids \in SeqsUpTo(TableIds \cup {ChunkId_null}, MaxBy) :
       /\ idx' = ids
       /\ tout' = DataFrame_take(df, ids, thint, "take_opt")
  /\ top' = "take_opt"
  /\ tpc' = "done"
  /\ UNCHANGED << df, thint, slots, pending, colvars, codecvars >>

\* _take_chunked_unchecked_hor_par: one task per column is handed to the pool
take_chunked_unchecked_hor_par ==
  /\ tpc = "idle"
  /\ \E ids \in SeqsUpTo(TableIds, MaxBy), hint \in IsSorted :
       /\ idx' = ids
       /\ thint' = hint
  /\ top' = "take_hor_par"
  /\ tpc' = "par"
  /\ slots' = [j \in 1..Len(df.columns) |-> NoSlot]
  /\ pending' = 1..Len(df.columns)
  /\ UNCHANGED << df, tout, colvars, codecvars >>

\* _take_opt_chunked_unchecked_hor_par
take_opt_chunked_unchecked_hor_par ==
  /\ tpc = "idle"
  /\ \E ids \in SeqsUpTo(TableIds \cup {ChunkId_null}, MaxBy) : idx' = ids
  /\ top' = "take_opt_hor_par"
  /\ tpc' = "par"
  /\ slots' = [j \in 1..Len(df.columns) |-> NoSlot]
  /\ pending' = 1..Len(df.columns)
  /\ UNCHANGED << df, thint, tout, colvars, codecvars >>

\* the task of one column runs, in any order with the others, and fills its slot
ColumnTask ==
  /\ tpc = "par"
  /\ \E j \in pending :
       /\ slots' = [slots EXCEPT ![j] = HorParClosure(df.columns[j], idx, thint, top)]
       /\ pending' = pending \ {j}
  /\ UNCHANGED << df, idx, thint, top, tpc, tout, colvars, codecvars >>

\* every task is over: the collected columns become the table
HorParCollect ==
  /\ tpc = "par"
  /\ pending = {}
  /\ tout' = new_no_checks_height_from_first(slots)
  /\ tpc' = "done"
  /\ UNCHANGED << df, idx, thint, top, slots, pending, colvars, codecvars >>

NextTable ==
  \/ DataFrame_take_chunked_unchecked
  \/ DataFrame_take_opt_chunked_unchecked
  \/ take_chunked_unchecked_hor_par
  \/ take_opt_chunked_unchecked_hor_par
  \/ ColumnTask
  \/ HorParCollect

SpecTable == InitTable /\ [][NextTable]_vars

Names(t) == [j \in 1..Len(t.columns) |-> t.columns[j].name]

\* C8: the table-level gather and gather_opt return the column names of the source
\* in the same order and as many rows as there are addresses, for every table, the
\* table without columns included.
C8_TableShape ==
  (tpc = "done" /\ top \in {"take", "take_opt"}) =>
    /\ Names(tout) = Names(df)
    /\ tout.height = Len(idx)

\* the sequential entry point that matches a _hor_par one
SeqEntry == IF top = "take_hor_par" THEN "take" ELSE "take_opt"

MaxChunkField == Pow2(ChunkBits) - 1

MaxRowField == Pow2(RowBits) - 1

\* decoding without the null test
ChunkId_decode_no_null_test(id) == ChunkId_extract(id)

\* `if chunk_id.is_null() { None } else { chunk_id.extract() }`; <<>> stands for None
ChunkId_decode(id) == IF ChunkId_is_null(id) THEN << >> ELSE ChunkId_extract(id)

InitCodec ==
  /\ ColIdle
  /\ TblIdle
  /\ cpc = "idle"
  /\ cin = << >>
  /\ caddr = 0
  /\ cdec = << >>

\* ChunkId::store(chunk, row), both within their fields
Store ==
  /\ cpc = "idle"
  /\ \E c \in 0..MaxChunkField, i \in 0..MaxRowField :
       /\ cin' = << c, i >>
       /\ caddr' = ChunkId_store(c, i)
  /\ cpc' = "stored"
  /\ UNCHANGED << cdec, colvars, tblvars >>

\* ChunkId::null()
StoreNull ==
  /\ cpc = "idle"
  /\ cin' = << >>
  /\ caddr' = ChunkId_null
  /\ cpc' = "stored"
  /\ UNCHANGED << cdec, colvars, tblvars >>

Decode ==
  /\ cpc = "stored"
  /\ cdec' = ChunkId_decode(caddr)
  /\ cpc' = "decoded"
  /\ UNCHANGED << cin, caddr, colvars, tblvars >>

NextCodec == Store \/ StoreNull \/ Decode

SpecCodec == InitCodec /\ [][NextCodec]_vars

Layout(a) == [c \in 1..n_chunks(a) |-> ChunkLen(a, c)]

RECURSIVE SumSeq(_)
SumSeq(q) == IF q = <<>> THEN 0 ELSE Head(q) + SumSeq(Tail(q))

\* the ways of cutting n rows into at most MaxChunks + 1 non-empty chunks
Layouts(n) == { q \in SeqsUpTo(1..n, MaxChunks + 1) : SumSeq(q) = n }

\* the values of a laid out in chunks of the lengths lens
Rechunk(a, lens) ==
  LET vals == Flatten(a)
      from(c) == SumSeq(SubSeq(lens, 1, c - 1))
  IN  [a EXCEPT !.chunks =
         [c \in 1..Len(lens) |-> collect_arr(SubSeq(vals, from(c) + 1, from(c) + lens[c]))]]

is_nested(dtype) == dtype = "list"

\* what s.to_physical_repr() may return: the same values, chunk for chunk as
\* in s or in any other layout
to_physical_repr(s) == {s} \cup { Rechunk(s, q) : q \in Layouts(Len(Flatten(s))) \ {Layout(s)} }

\* prepare_series: a nested source is borrowed as it is; any other is replaced
\* by its physical representation; the assertion compares the chunk counts
prepare_series(s, cast) ==
  LET p == IF is_nested(s.dtype) THEN s ELSE cast
  IN  [phys |-> p, asserted |-> n_chunks(p) = n_chunks(s)]

\* the address names an element of a
InBounds(a, id) ==
  LET ci == ChunkId_extract(id)
  IN  ci[1] < n_chunks(a) /\ ci[2] < ChunkLen(a, ci[1] + 1)

\* the logical sources of the prepared gather
InitPrepared ==
  /\ \/ ca \in Sources("fixed", PrimArrays)
     \/ ca \in Sources("list", PrimArrays)
  /\ by = <<>>
  /\ sorted = "Not"
  /\ op = "none"
  /\ pc = "idle"
  /\ k = 0
  /\ b = EmptyPrimBuilder
  /\ out = NoOut
  /\ phys = NoOut
  /\ TblIdle
  /\ CodecIdle

\* Series::take_chunked_unchecked from its first statement, prepare_series
Prepared_take_chunked_unchecked ==
  /\ pc = "idle"
  /\ \E ids \in SeqsUpTo(ValidIds(ca), MaxBy), hint \in IsSorted :
       /\ by' = ids
       /\ sorted' = hint
  /\ \E cast \in to_physical_repr(ca) :
       LET r == prepare_series(ca, cast)
       IN  /\ phys' = r.phys
           /\ pc' = IF r.asserted THEN "loop" ELSE "panic"
  /\ op' = "take"
  /\ UNCHANGED << ca, k, b, out, tblvars, codecvars >>

\* Series::take_opt_chunked_unchecked from its first statement, prepare_series
Prepared_take_opt_chunked_unchecked ==
  /\ pc = "idle"
  /\ \E ids \in SeqsUpTo(ValidIds(ca) \cup {ChunkId_null}, MaxBy) : by' = ids
  /\ \E cast \in to_physical_repr(ca) :
       LET r == prepare_series(ca, cast)
       IN  /\ phys' = r.phys
           /\ pc' = IF r.asserted THEN "loop" ELSE "panic"
  /\ op' = "take_opt"
  /\ UNCHANGED << ca, sorted, k, b, out, tblvars, codecvars >>

\* one item of the gather over phys, the address inside phys
PreparedLoop ==
  /\ pc = "loop"
  /\ k < Len(by)
  /\ (op = "take_opt" /\ ChunkId_is_null(by[k + 1])) \/ InBounds(phys, by[k + 1])
  /\ b' = PrimStep(b, by[k + 1], phys, op = "take_opt")
  /\ k' = k + 1
  /\ UNCHANGED << ca, by, sorted, op, pc, out, phys, tblvars, codecvars >>

\* one item of the gather over phys, the address outside phys: the unchecked
\* read is undefined, it faults or yields whatever the memory holds
PreparedLoopOutOfBounds ==
  /\ pc = "loop"
  /\ k < Len(by)
  /\ ~(op = "take_opt" /\ ChunkId_is_null(by[k + 1]))
  /\ ~InBounds(phys, by[k + 1])
  /\ \/ /\ pc' = "crash"
        /\ UNCHANGED << k, b >>
     \/ /\ \E e \in Range(Flatten(phys)) \cup {NoneP} :
             b' = [b EXCEPT !.items = Append(@, e), !.reads = Append(@, {ChunkId_extract(by[k + 1])})]
        /\ k' = k + 1
        /\ pc' = pc
  /\ UNCHANGED << ca, by, sorted, op, out, phys, tblvars, codecvars >>

\* the end of the gather over phys
PreparedReturn ==
  /\ pc = "loop"
  /\ k = Len(by)
  /\ out' = IF op = "take" THEN PrimFinishTake(b, phys, sorted) ELSE PrimFinishOpt(b, phys)
  /\ pc' = "done"
  /\ UNCHANGED << ca, by, sorted, op, k, b, phys, tblvars, codecvars >>

NextPrepared ==
  \/ Prepared_take_chunked_unchecked
  \/ Prepared_take_opt_chunked_unchecked
  \/ PreparedLoop
  \/ PreparedLoopOutOfBounds
  \/ PreparedReturn

SpecPrepared == InitPrepared /\ [][NextPrepared]_vars

\* C11: once the gather or gather_opt has been entered, a physical
\* representation whose chunk layout (chunk count or a per-chunk length)
\* differs from the logical source's has made it abort with no element read and
\* no output, and an identical layout has raised no such error
C11_LayoutMismatchAborts ==
  pc # "idle" =>
    IF Layout(phys) # Layout(ca)
    THEN pc = "panic" /\ b.reads = <<>> /\ out = NoOut
    ELSE pc # "panic"

\* the layout differs in a per-chunk length only and an element has been read
C11_ReadAfterMismatch ==
  /\ pc \in {"loop", "done"}
  /\ n_chunks(phys) = n_chunks(ca)
  /\ Layout(phys) # Layout(ca)
  /\ b.reads # <<>>

(***************************************************************************)
(* The multi-chunk view-encoded gather, address by address.                *)
(***************************************************************************)
\* the loop of the multi-chunk view-encoded gather is running or has ended
InMultiGather == pc \in {"loop", "done"} /\ ca.dtype = "binview" /\ n_chunks(ca) >= 2

\* the address at position j is not the null sentinel and names a non-null row
GatheredNonNull(j) ==
  /\ ~ChunkId_is_null(by[j])
  /\ LET e == ChunkId_extract(by[j])
     IN  ~Array_is_null_unchecked(ca.chunks[e[1] + 1], e[2])

\* the source descriptor the address at position j names
SourceView(j) ==
  LET e == ChunkId_extract(by[j])
  IN  ca.chunks[e[1] + 1].views[e[2] + 1]

\* C12: in the multi-chunk view-encoded gather, the step that gathers a
\* non-null descriptor of length <= 12 (12 included) emits it identical to the
\* source descriptor and leaves the output pool and the dedup map as they were;
\* the step that gathers one of length > 12 may change its buffer index only:
\* length, prefix and offset are those of the source descriptor
C12_InlineViewsUntouched ==
  [][ (InMultiGather /\ pc = "loop" /\ k' = k + 1 /\ GatheredNonNull(k + 1)) =>
        LET sv == SourceView(k + 1)
            ev == b'.views[k + 1]
        IN  IF sv.length <= INLINE_LEN
            THEN /\ ev = sv
                 /\ b'.buffers = b.buffers
                 /\ b'.buffer_idxs = b.buffer_idxs
            ELSE /\ ev.length = sv.length
                 /\ ev.prefix = sv.prefix
                 /\ ev.offset = sv.offset ]_vars

\* a descriptor of exactly 12 bytes has been gathered after a longer one: it is
\* as in the source and the pool holds the one buffer of the longer one
C12_Witness ==
  /\ InMultiGather
  /\ k >= 2
  /\ GatheredNonNull(1) /\ SourceView(1).length > INLINE_LEN
  /\ GatheredNonNull(2) /\ SourceView(2).length = INLINE_LEN
  /\ b.views[2] = SourceView(2)
  /\ b.views[2].buffer_idx # 0
  /\ Len(b.buffers) = 1
  /\ Cardinality(b.buffer_idxs) = 1

\* the gathered non-null rows longer than 12 bytes among the first n addresses
LongRowsUpTo(n) == { j \in LongRows : j <= n }

RECURSIVE FirstRefs(_)
\* the source buffers the first n addresses refer to, each (identity, length)
\* key once, in the order of first reference
FirstRefs(n) ==
  IF n = 0 THEN <<>>
  ELSE LET prev == FirstRefs(n - 1)
       IN  IF n \in LongRows /\ BufferKey(SourceBuffer(n)) \notin { BufferKey(x) : x \in Range(prev) }
           THEN Append(prev, SourceBuffer(n))
           ELSE prev

\* C13: after any prefix of the address list in the multi-chunk view-encoded
\* gather, the dedup map and the output pool are in bijection (as many entries
\* as buffers, one entry per key, values exactly 0..len(pool)-1, pool[map[k]]
\* the buffer with key k, buffers in order of first reference), and every
\* descriptor emitted so far with length > 12 has a buffer index < len(pool)
\* that designates the buffer its source descriptor referenced in its own chunk
C13_MapPoolBijection ==
  InMultiGather =>
    LET pool == b.buffers
        map == b.buffer_idxs
    IN  /\ Cardinality(map) = Len(pool)
        /\ \A e1, e2 \in map : e1[1] = e2[1] => e1 = e2
        /\ { e[2] : e \in map } = 0..(Len(pool) - 1)
        /\ \A e \in map : BufferKey(pool[e[2] + 1]) = e[1]
        /\ pool = FirstRefs(k)
        /\ Len(b.views) = k
        /\ \A j \in LongRowsUpTo(k) :
             /\ b.views[j].buffer_idx < Len(pool)
             /\ pool[b.views[j].buffer_idx + 1] = SourceBuffer(j)

\* three long rows gathered, the first and the third from one buffer, the second
\* from another: two pooled buffers, the third descriptor sent back to the first
C13_Witness ==
  /\ InMultiGather
  /\ k = 3
  /\ LongRowsUpTo(3) = {1, 2, 3}
  /\ SourceBuffer(1) = SourceBuffer(3)
  /\ SourceBuffer(1) # SourceBuffer(2)
  /\ SourceView(1).buffer_idx # b.views[1].buffer_idx
  /\ Len(b.buffers) = 2
  /\ b.views[3].buffer_idx = 0
  /\ b.views[2].buffer_idx = 1

====
